---- MODULE Spec2Model ----
(***************************************************************************)
(* Model of extracutu.js: the per-user screenshot-stacking sessions, the   *)
(* batch pipeline (processSessionScreenshots), the expiry sweep            *)
(* (cleanupSessions) and the text handler that drives them.                *)
(*                                                                         *)
(* Node.js runs the handlers as cooperative tasks: a handler runs          *)
(* synchronously up to its next `await`, and other handlers, timer         *)
(* callbacks and I/O completions run while it is suspended.  Each action   *)
(* below is one such synchronous stretch: it starts where an awaited       *)
(* promise settles (resolved or rejected, chosen with \E) and ends at the  *)
(* next await.  Consecutive awaits with no access to shared state between  *)
(* them (two replies in a row) are one action, since a step that touches   *)
(* only the task's own position commutes with every other task's step.     *)
(*                                                                         *)
(* An artifact is identified by the timestamp in its file name             *)
(* (screenshot-<Date.now()>.png); text extracted from an artifact is       *)
(* identified by the artifact it was read from.                            *)
(***************************************************************************)
EXTENDS Integers, Sequences, FiniteSets, Bags, TLC

\* ---- bounds of the model ------------------------------------------------
MaxTasks == 2        \* handlers in flight at once
MaxDigit == 2        \* capture digits drawn from 1..MaxDigit (the code takes 1..9)
MaxMsgs == 3         \* messages received in one behaviour
MaxTicks == 1        \* times the clock advances in one behaviour

\* ---- program constants --------------------------------------------------
NSlots == 9                              \* digits 1-9, line 459
session_timeout == 45                    \* CONFIG.session_timeout, line 13
timeoutMs == session_timeout * 60 * 1000 \* line 248
retries == 5                             \* launchBot's default, line 501
delay == 5000                            \* launchBot's default, line 501

Users == {"u1", "u2"}
Chats == {"c1", "c9"}
CHAT_IDS == {"c1"}   \* the allow-list of line 42
Slots == 1..NSlots
Empty == 0           \* a hole of a sparse array; null / "" of a text
Sentinel == -1       \* the text "Gemini OCR is disabled", line 307

VARIABLES
  CONFIG,         \* the feature flags gemini_ocr and chatgpt_answer
  launch,         \* launchBot: its position and locals, and the exit code
  now,            \* Date.now()
  userSessions,   \* Map userId -> reference of a session object
  heap,           \* the session objects ever created, by reference
  files,          \* the artifact files in the screenshots directory
  pendingUnlinks, \* fs.unlink calls the sweep started and did not await
  tasks,          \* the handlers in flight: a bag of (position, locals)
  msgs,           \* number of messages received
  ticks,          \* number of clock advances
  unauthorized,   \* number of "Unauthorized access attempt" lines logged
  unlinkErrors,   \* number of "Failed to delete screenshot" lines logged
  overwritten,    \* history: artifacts that a slot write replaced
  released        \* history: successful deletions, per artifact

vars == <<CONFIG, launch, now, userSessions, heap, files, pendingUnlinks, tasks,
          msgs, ticks, unauthorized, unlinkErrors, overwritten, released>>

\* ---- arrays --------------------------------------------------------------
\* session.screenshots = [] / session.extractedTexts = []
EmptyArray == [i \in Slots |-> Empty]

\* extractedTexts also takes the key -1 when findIndex found nothing
\* (screenshotNumber 0): keys are screenshot numbers 0..9
EmptyTexts == [i \in 0..NSlots |-> Empty]

\* arr.filter(s => s): the occupied entries, in ascending index order
RECURSIVE FilterFrom(_, _)
FilterFrom(arr, i) ==
  IF i > NSlots THEN <<>>
  ELSE IF arr[i] # Empty THEN <<arr[i]>> \o FilterFrom(arr, i + 1)
       ELSE FilterFrom(arr, i + 1)

Filter(arr) == FilterFrom(arr, 1)

\* arr.length: one past the last occupied index
ArrayLength(arr) ==
  IF \A i \in Slots : arr[i] = Empty THEN 0
  ELSE CHOOSE i \in Slots : arr[i] # Empty /\ \A j \in Slots : j > i => arr[j] = Empty

\* arr.findIndex(s => s === x), zero-based, -1 when absent
FindIndex(arr, x) ==
  IF \E i \in Slots : arr[i] = x
  THEN (CHOOSE i \in Slots : arr[i] = x /\ \A j \in Slots : j < i => arr[j] # x) - 1
  ELSE -1

\* ---- sessions ------------------------------------------------------------
NoSession == 0

\* createSession's object literal, lines 219-225
NewSession(userId) ==
  [userId |-> userId, screenshots |-> EmptyArray, extractedTexts |-> EmptyTexts,
   startTime |-> now]

\* ---- handlers ------------------------------------------------------------
\* the locals of a handler before it has set any
NewTask ==
  [pc |-> "new", userId |-> "", digit |-> 0, session |-> NoSession,
   screenshotPath |-> Empty, totalScreenshots |-> 0, validScreenshots |-> <<>>,
   i |-> 0, screenshotNumber |-> 0, processedCount |-> 0,
   allExtractedText |-> <<>>, extractedText |-> Empty, fileRead |-> FALSE,
   run |-> "none", startSlots |-> EmptyArray, answerCalls |-> 0,
   extractFailed |-> 0, answerFailed |-> FALSE,
   successNotices |-> 0, failureNotices |-> 0, error |-> "none"]

Init ==
  /\ CONFIG \in [gemini_ocr : {0, 1}, chatgpt_answer : {0, 1}]
  /\ launch = [pc |-> "a504", i |-> 0, attempts |-> 1, waited |-> 0, exitCode |-> 0]
  /\ now = 1
  /\ userSessions = << >>
  /\ heap = << >>
  /\ files = {}
  /\ pendingUnlinks = EmptyBag
  /\ tasks = EmptyBag
  /\ msgs = 0
  /\ ticks = 0
  /\ unauthorized = 0
  /\ unlinkErrors = 0
  /\ overwritten = {}
  /\ released = EmptyBag

\* the session object a handler's reference denotes
Session(r) == heap[r.session]

Occupied(arr) == {i \in Slots : arr[i] # Empty}

\* handler r goes on as r2
SetTask(r, r2) == tasks' = (tasks (-) SetToBag({r})) (+) SetToBag({r2})

\* the handler returns (or its error goes to bot.catch): the task is over
Finish(r) == tasks' = tasks (-) SetToBag({r})

\* the handler has only replies left to send (lines 470-472, 478, 488-489,
\* 495), which read none of its locals but the ones kept here; in the catch
\* of line 493 the error is the rejection of a Telegram call, unless
\* takeScreenshot threw it
TailOf(r, pc) ==
  [NewTask EXCEPT !.pc = pc, !.userId = r.userId, !.session = r.session,
                   !.run = r.run,
                   !.error = IF pc = "a495" THEN "transport" ELSE "none"]

\* ---- launchBot, lines 501-525 ------------------------------------------------
\* launchBot has returned true: the bot is polling and its locals are gone
LaunchReturned ==
  [pc |-> "returned", i |-> 0, attempts |-> 0, waited |-> 0, exitCode |-> 0]

\* a plausible slip: the loop waits and retries after the last attempt too
LaunchSettlesRetriesOnceMore(ok) ==
  /\ launch.pc = "a504"
  /\ launch' = IF ok THEN LaunchReturned
               ELSE IF launch.i < retries
               THEN [launch EXCEPT !.pc = "a512"]
               ELSE [launch EXCEPT !.pc = "exited", !.exitCode = 1]
  /\ UNCHANGED <<CONFIG, now, userSessions, heap, files, pendingUnlinks, tasks,
                 msgs, ticks, unauthorized, unlinkErrors, overwritten, released>>

\* lines 504-516 and 521-525: bot.launch() settles.  Resolved: return true.
\* Rejected: wait for the delay when an attempt is left, else throw, and the
\* catch of line 522 ends the process with exit code 1
LaunchSettles(ok) ==
  /\ launch.pc = "a504"
  /\ launch' = IF ok THEN LaunchReturned
               ELSE IF launch.i < retries - 1
               THEN [launch EXCEPT !.pc = "a512"]
               ELSE [launch EXCEPT !.pc = "exited", !.exitCode = 1]
  /\ UNCHANGED <<CONFIG, now, userSessions, heap, files, pendingUnlinks, tasks,
                 msgs, ticks, unauthorized, unlinkErrors, overwritten, released>>

\* line 512 settles after the delay; lines 502-504: i++ and the next attempt
BackoffElapses ==
  /\ launch.pc = "a512"
  /\ launch' = [launch EXCEPT !.pc = "a504", !.i = @ + 1, !.attempts = @ + 1,
                              !.waited = @ + delay]
  /\ UNCHANGED <<CONFIG, now, userSessions, heap, files, pendingUnlinks, tasks,
                 msgs, ticks, unauthorized, unlinkErrors, overwritten, released>>

\* ---- the text of a message: a sequence of characters -----------------------
DigitChars == <<"0", "1", "2", "3", "4", "5", "6", "7", "8", "9">>

\* toLowerCase() on the characters the messages of the model use
ToLowerCase(c) == IF c = "S" THEN "s" ELSE c

\* line 414: message.toLowerCase().includes('ss')
IncludesSS(message) ==
  \E k \in 1..(Len(message) - 1) :
    ToLowerCase(message[k]) = "s" /\ ToLowerCase(message[k + 1]) = "s"

\* line 453: /^[0-9]$/.test(message)
IsDigit(message) ==
  Len(message) = 1 /\ \E k \in 1..10 : DigitChars[k] = message[1]

\* line 454: parseInt(message, 10) of a one-digit message
ParseInt(message) == (CHOOSE k \in 1..10 : DigitChars[k] = message[1]) - 1

\* ---- bot.on('text'), lines 397-498 -------------------------------------------
\* getOrCreateSession, lines 236-241, with createSession, lines 218-228
GetOrCreateSession(userId) ==
  IF userId \in DOMAIN userSessions
  THEN /\ UNCHANGED <<userSessions, heap>>
  ELSE /\ heap' = Append(heap, NewSession(userId))
       /\ userSessions' = userSessions @@ (userId :> Len(heap) + 1)

\* a plausible slip: the session is fetched before the allow-list is checked
DropAfterSession(userId, message) ==
  /\ unauthorized' = unauthorized + 1
  /\ GetOrCreateSession(userId)
  /\ tasks' = tasks

\* lines 408-411: a message of a chat outside the allow-list is logged and
\* the handler returns
Drop(userId, message) ==
  /\ unauthorized' = unauthorized + 1
  /\ UNCHANGED <<userSessions, heap, tasks>>

\* lines 414-417, 453-460 and 475-482: a text with "ss" starts the single-shot
\* branch (line 414); a single digit gets the user's session (line 455) and
\* then branches on the digit; any other text falls through the handler
Dispatch(userId, message) ==
  /\ unauthorized' = unauthorized
  /\ IF IncludesSS(message)
     THEN /\ BagCardinality(tasks) < MaxTasks
          /\ tasks' = tasks (+) SetToBag({[NewTask EXCEPT !.pc = "s417"]})
          /\ UNCHANGED <<userSessions, heap>>
     ELSE IF IsDigit(message)
     THEN /\ BagCardinality(tasks) < MaxTasks
          /\ GetOrCreateSession(userId)
          /\ LET digit == ParseInt(message)
                 session == userSessions'[userId]
                 screenshotCount == Len(Filter(heap'[session].screenshots))
                 pc == IF digit >= 1 /\ digit <= 9 THEN "a460"
                       ELSE IF screenshotCount = 0 THEN "a478" ELSE "a482"
             IN tasks' = tasks (+) SetToBag({[NewTask EXCEPT
                           !.pc = pc, !.userId = userId, !.digit = digit,
                           !.session = session]})
     ELSE UNCHANGED <<userSessions, heap, tasks>>

\* lines 397-411: the handler's synchronous stretch up to its first await, or
\* to its return; messages arrive once the bot is polling
Receive(chatId, userId, message) ==
  /\ launch.pc = "returned"
  /\ msgs < MaxMsgs
  /\ msgs' = msgs + 1
  /\ IF chatId \notin CHAT_IDS
     THEN Drop(userId, message)
     ELSE Dispatch(userId, message)
  /\ UNCHANGED <<CONFIG, launch, now, files, pendingUnlinks, ticks, unlinkErrors,
                 overwritten, released>>

\* line 460 settles; takeScreenshot starts: lines 86-89 name the file
Reply460(r, ok) ==
  /\ BagIn(r, tasks) /\ r.pc = "a460"
  /\ IF ok
     THEN SetTask(r, [r EXCEPT !.pc = "a95", !.screenshotPath = now])
     ELSE SetTask(r, TailOf(r, "a495"))
  /\ UNCHANGED <<CONFIG, launch, unauthorized, unlinkErrors, now, userSessions, heap, files, pendingUnlinks,
                 msgs, ticks, overwritten, released>>

\* a plausible slip: the path is stored in the slot before the capture is
\* known to have succeeded
TakeScreenshotStoresAnyway(r, ok) ==
  /\ BagIn(r, tasks) /\ r.pc = "a95"
  /\ heap' = [heap EXCEPT ![r.session].screenshots[r.digit] = r.screenshotPath]
  /\ IF ok
     THEN /\ files' = files \cup {r.screenshotPath}
          /\ SetTask(r, [r EXCEPT !.pc = "a461"])
     ELSE /\ files' = files
          /\ SetTask(r, [TailOf(r, "a495") EXCEPT !.error = "capture"])
  /\ UNCHANGED <<CONFIG, launch, unauthorized, unlinkErrors, now, userSessions,
                 pendingUnlinks, msgs, ticks, overwritten, released>>

\* lines 89-101: the capture and sharp's toFile settle; on success the file
\* is on disk, on failure takeScreenshot throws (line 100) into the catch of
\* line 493
TakeScreenshot(r, ok) ==
  /\ BagIn(r, tasks) /\ r.pc = "a95"
  /\ IF ok
     THEN /\ files' = files \cup {r.screenshotPath}
          /\ SetTask(r, [r EXCEPT !.pc = "a461"])
     ELSE /\ files' = files
          /\ SetTask(r, [TailOf(r, "a495") EXCEPT !.error = "capture"])
  /\ UNCHANGED <<CONFIG, launch, unauthorized, unlinkErrors, now, userSessions, heap,
                 pendingUnlinks, msgs, ticks, overwritten, released>>

\* line 464: session.screenshots[digit - 1] = screenshotPath
StoreScreenshot(session, digit, screenshotPath) ==
  [session EXCEPT !.screenshots[digit] = screenshotPath]

\* lines 461-470: the handler resumes with the path and stores it
StoreSlot(r) ==
  /\ BagIn(r, tasks) /\ r.pc = "a461"
  /\ LET old == Session(r).screenshots[r.digit]
     IN /\ heap' = [heap EXCEPT ![r.session] =
                      StoreScreenshot(@, r.digit, r.screenshotPath)]
        /\ overwritten' = IF old \notin {Empty, r.screenshotPath}
                          THEN overwritten \cup {old} ELSE overwritten
  /\ SetTask(r, TailOf(r, "a470"))
  /\ UNCHANGED <<CONFIG, launch, unauthorized, unlinkErrors, now, userSessions, files, pendingUnlinks,
                 msgs, ticks, released>>

\* lines 470-472 settle: the photo and the confirmation
Reply470(r, ok) ==
  /\ BagIn(r, tasks) /\ r.pc = "a470"
  /\ IF ok THEN Finish(r) ELSE SetTask(r, TailOf(r, "a495"))
  /\ UNCHANGED <<CONFIG, launch, unauthorized, unlinkErrors, now, userSessions, heap, files, pendingUnlinks,
                 msgs, ticks, overwritten, released>>

\* lines 493-496: the catch's reply settles; a rejection goes to bot.catch
Reply495(r) ==
  /\ BagIn(r, tasks) /\ r.pc = "a495"
  /\ Finish(r)
  /\ UNCHANGED <<CONFIG, launch, unauthorized, unlinkErrors, now, userSessions, heap, files, pendingUnlinks,
                 msgs, ticks, overwritten, released>>

\* lines 478-479: nothing stored, the handler replies and returns
Reply478(r, ok) ==
  /\ BagIn(r, tasks) /\ r.pc = "a478"
  /\ IF ok THEN Finish(r) ELSE SetTask(r, TailOf(r, "a495"))
  /\ UNCHANGED <<CONFIG, launch, unauthorized, unlinkErrors, now, userSessions, heap, files, pendingUnlinks,
                 msgs, ticks, overwritten, released>>

\* fs.unlink(path) settles: it deletes the file, or fails (always when the
\* file is not there)
UnlinkOutcomes(path) == IF path \in files THEN {TRUE, FALSE} ELSE {FALSE}

\* ---- bot.on('text'), lines 414-450: the single-shot command -----------------
\* This branch uses none of the handler's locals but screenshotPath.
\* line 417 settles; takeScreenshot starts: lines 86-89 name the file
Reply417(r, ok) ==
  /\ BagIn(r, tasks) /\ r.pc = "s417"
  /\ IF ok
     THEN SetTask(r, [r EXCEPT !.pc = "s95", !.screenshotPath = now])
     ELSE SetTask(r, [NewTask EXCEPT !.pc = "s447"])
  /\ UNCHANGED <<CONFIG, launch, unauthorized, unlinkErrors, now, userSessions, heap,
                 files, pendingUnlinks, msgs, ticks, overwritten, released>>

\* line 418, lines 89-101: the capture settles; on success the file is on disk
SingleScreenshot(r, ok) ==
  /\ BagIn(r, tasks) /\ r.pc = "s95"
  /\ IF ok
     THEN /\ files' = files \cup {r.screenshotPath}
          /\ SetTask(r, [r EXCEPT !.pc = "s421"])
     ELSE /\ files' = files
          /\ SetTask(r, [NewTask EXCEPT !.pc = "s447"])
  /\ UNCHANGED <<CONFIG, launch, unauthorized, unlinkErrors, now, userSessions, heap,
                 pendingUnlinks, msgs, ticks, overwritten, released>>

\* lines 421-442 settle: the photo, the document, the extraction and the
\* answer with their replies, none of which writes a file or a session (a
\* rejection goes to the catch of line 445 and the file stays), and then
\* fs.unlink(screenshotPath)
Unlink442(r, ok, unlinked) ==
  /\ BagIn(r, tasks) /\ r.pc = "s421"
  /\ unlinked \in UnlinkOutcomes(r.screenshotPath)
  /\ IF ok /\ unlinked
     THEN /\ files' = files \ {r.screenshotPath}
          /\ released' = released (+) SetToBag({r.screenshotPath})
          /\ SetTask(r, [NewTask EXCEPT !.pc = "s443"])
     ELSE /\ UNCHANGED <<files, released>>
          /\ SetTask(r, [NewTask EXCEPT !.pc = "s447"])
  /\ UNCHANGED <<CONFIG, launch, unauthorized, unlinkErrors, now, userSessions, heap,
                 pendingUnlinks, msgs, ticks, overwritten>>

\* lines 443-448 settle: deleteMessage and, on its rejection, the catch's reply
Reply443(r) ==
  /\ BagIn(r, tasks) /\ r.pc = "s443"
  /\ Finish(r)
  /\ UNCHANGED <<CONFIG, launch, unauthorized, unlinkErrors, now, userSessions, heap,
                 files, pendingUnlinks, msgs, ticks, overwritten, released>>

\* line 447 settles: the catch's reply; a rejection goes to bot.catch
Reply447(r) ==
  /\ BagIn(r, tasks) /\ r.pc = "s447"
  /\ Finish(r)
  /\ UNCHANGED <<CONFIG, launch, unauthorized, unlinkErrors, now, userSessions, heap,
                 files, pendingUnlinks, msgs, ticks, overwritten, released>>

\* Date.now() moves on: by a millisecond, or by more than the session timeout
Tick(d) ==
  /\ ticks < MaxTicks
  /\ ticks' = ticks + 1
  /\ now' = now + d
  /\ UNCHANGED <<CONFIG, launch, unauthorized, unlinkErrors, userSessions, heap, files, pendingUnlinks, tasks,
                 msgs, overwritten, released>>

\* ---- processSessionScreenshots, lines 273-368 ------------------------------
RunPcs == {"a283", "a295", "a306", "a320", "a323", "a327", "a330", "a335",
           "a343", "a347", "a351"}

\* lines 362-365: the reset at the end of a run
ResetSession(session) ==
  [session EXCEPT !.screenshots = EmptyArray, !.extractedTexts = EmptyTexts,
                  !.startTime = now]

\* lines 289-291 and 334-335: the loop head for position i (zero-based), or
\* the statistics reply once every collected item has been gone through
NextItem(r, session, i) ==
  IF i < Len(r.validScreenshots)
  THEN [r EXCEPT !.pc = "a295", !.i = i,
                 !.screenshotPath = r.validScreenshots[i + 1],
                 !.screenshotNumber =
                    FindIndex(session.screenshots, r.validScreenshots[i + 1]) + 1,
                 !.extractedText = Empty, !.fileRead = FALSE]
  ELSE [r EXCEPT !.pc = "a335", !.i = i, !.screenshotPath = Empty,
                 !.screenshotNumber = 0, !.extractedText = Empty,
                 !.fileRead = FALSE]

\* the run throws: the handler's catch of line 493 replies
RunThrows(r) == TailOf([r EXCEPT !.run = "threw"], "a495")

\* lines 356-367: summary, reset, return to line 488
RunReturns(r) == TailOf([r EXCEPT !.run = "returned"], "a488")

\* line 482 settles; processSessionScreenshots runs to its first await
\* (lines 274-283), or returns at once on an empty array (lines 274-276)
Reply482(r, ok) ==
  /\ BagIn(r, tasks) /\ r.pc = "a482"
  /\ IF ~ok THEN SetTask(r, TailOf(r, "a495"))
     ELSE IF ArrayLength(Session(r).screenshots) = 0
     THEN SetTask(r, TailOf([r EXCEPT !.run = "noop"], "a488"))
     ELSE SetTask(r, [r EXCEPT
            !.pc = "a283", !.run = "active",
            !.startSlots = Session(r).screenshots,
            !.totalScreenshots = Len(Filter(Session(r).screenshots))])
  /\ UNCHANGED <<CONFIG, launch, unauthorized, unlinkErrors, now, userSessions, heap, files, pendingUnlinks,
                 msgs, ticks, overwritten, released>>

\* line 283 settles; lines 286-291 collect the items and enter the loop
Reply283(r, ok) ==
  /\ BagIn(r, tasks) /\ r.pc = "a283"
  /\ IF ok
     THEN SetTask(r, NextItem([r EXCEPT
                                 !.processedCount = 0,
                                 !.validScreenshots = Filter(Session(r).screenshots)],
                              Session(r), 0))
     ELSE SetTask(r, RunThrows(r))
  /\ UNCHANGED <<CONFIG, launch, unauthorized, unlinkErrors, now, userSessions, heap, files, pendingUnlinks,
                 msgs, ticks, overwritten, released>>

\* lines 309-313: a text was extracted: store it and append its segment
KeepText(r, text) ==
  [r EXCEPT !.pc = "a320", !.extractedText = text,
            !.allExtractedText = Append(@, <<r.screenshotNumber, text>>)]

\* line 310: session.extractedTexts[screenshotNumber - 1] = extractedText
StoreText(session, screenshotNumber, text) ==
  [session EXCEPT !.extractedTexts[screenshotNumber] = text]

\* the notices delivered for the item the loop is at; at the loop head and at
\* line 335 they are still those of the item the loop has just left
NoNotices(r) == [r EXCEPT !.successNotices = 0, !.failureNotices = 0]

\* lines 295-307: the progress reply and the photo settle; extraction starts
\* (uploadFile reads the file as it is called), or, with the flag off, the
\* fixed text is taken without an await and lines 309-320 follow at once
Reply295(r, ok) ==
  /\ BagIn(r, tasks) /\ r.pc = "a295"
  /\ IF ~ok
     THEN /\ SetTask(r, [NoNotices(r) EXCEPT !.pc = "a330"])
          /\ heap' = heap
     ELSE IF CONFIG.gemini_ocr = 1
     THEN /\ SetTask(r, [NoNotices(r) EXCEPT !.pc = "a306",
                           !.fileRead = (r.screenshotPath \in files)])
          /\ heap' = heap
     ELSE /\ SetTask(r, KeepText(NoNotices(r), Sentinel))
          /\ heap' = [heap EXCEPT ![r.session] =
                        StoreText(@, r.screenshotNumber, Sentinel)]
  /\ UNCHANGED <<CONFIG, launch, unauthorized, unlinkErrors, now, userSessions, files, pendingUnlinks,
                 msgs, ticks, overwritten, released>>

\* lines 135-175 seen from the caller: the text of the image, or null when
\* the upload or the service failed (extractTextFromImage never throws)
ExtractResults(r) ==
  IF r.fileRead THEN {r.screenshotPath, Empty} ELSE {Empty}

\* line 306 settles; lines 309-323
Extracted(r, text) ==
  /\ BagIn(r, tasks) /\ r.pc = "a306"
  /\ text \in ExtractResults(r)
  /\ IF text # Empty
     THEN /\ SetTask(r, KeepText(r, text))
          /\ heap' = [heap EXCEPT ![r.session] =
                        StoreText(@, r.screenshotNumber, text)]
     ELSE /\ SetTask(r, [r EXCEPT !.pc = "a323",
                                        !.extractFailed = @ + 1])
          /\ heap' = heap
  /\ UNCHANGED <<CONFIG, launch, unauthorized, unlinkErrors, now, userSessions, files, pendingUnlinks,
                 msgs, ticks, overwritten, released>>

\* line 320 settles: the success notice; lines 321-327
Reply320(r, ok) ==
  /\ BagIn(r, tasks) /\ r.pc = "a320"
  /\ IF ok
     THEN SetTask(r, [r EXCEPT !.pc = "a327", !.processedCount = @ + 1,
                               !.successNotices = @ + 1])
     ELSE SetTask(r, [r EXCEPT !.pc = "a330"])
  /\ UNCHANGED <<CONFIG, launch, unauthorized, unlinkErrors, now, userSessions, heap, files, pendingUnlinks,
                 msgs, ticks, overwritten, released>>

\* line 323 settles: the failure notice; line 327
Reply323(r, ok) ==
  /\ BagIn(r, tasks) /\ r.pc = "a323"
  /\ IF ok
     THEN SetTask(r, [r EXCEPT !.pc = "a327", !.failureNotices = @ + 1])
     ELSE SetTask(r, [r EXCEPT !.pc = "a330"])
  /\ UNCHANGED <<CONFIG, launch, unauthorized, unlinkErrors, now, userSessions, heap, files, pendingUnlinks,
                 msgs, ticks, overwritten, released>>

\* line 327 settles; the loop goes on, or the catch of line 328 replies
Unlink327(r, ok) ==
  /\ BagIn(r, tasks) /\ r.pc = "a327"
  /\ ok \in UnlinkOutcomes(r.screenshotPath)
  /\ IF ok
     THEN /\ files' = files \ {r.screenshotPath}
          /\ released' = released (+) SetToBag({r.screenshotPath})
          /\ SetTask(r, NextItem(r, Session(r), r.i + 1))
     ELSE /\ UNCHANGED <<files, released>>
          /\ SetTask(r, [r EXCEPT !.pc = "a330"])
  /\ UNCHANGED <<CONFIG, launch, unauthorized, unlinkErrors, now, userSessions, heap, pendingUnlinks,
                 msgs, ticks, overwritten>>

\* line 330 settles: the catch's notice; the loop goes on, or the run throws
Reply330(r, ok) ==
  /\ BagIn(r, tasks) /\ r.pc = "a330"
  /\ IF ok
     THEN SetTask(r, NextItem([r EXCEPT !.failureNotices = @ + 1],
                              Session(r), r.i + 1))
     ELSE SetTask(r, RunThrows(r))
  /\ UNCHANGED <<CONFIG, launch, unauthorized, unlinkErrors, now, userSessions, heap, files, pendingUnlinks,
                 msgs, ticks, overwritten, released>>

\* line 338: whether the answer step runs
AnswerWanted(r) == CONFIG.chatgpt_answer = 1 /\ r.allExtractedText # <<>>

\* lines 335-343: the statistics (and, in the answer step, lines 339-340)
\* settle; getAnswerFromChatGPT is called, or lines 356-367 end the run
Reply335(r, ok) ==
  /\ BagIn(r, tasks) /\ r.pc = "a335"
  /\ IF ~ok
     THEN /\ SetTask(r, RunThrows(r))
          /\ heap' = heap
     ELSE IF AnswerWanted(r)
     THEN /\ SetTask(r, [NoNotices(r) EXCEPT !.pc = "a343", !.answerCalls = @ + 1])
          /\ heap' = heap
     ELSE /\ SetTask(r, RunReturns(r))
          /\ heap' = [heap EXCEPT ![r.session] = ResetSession(@)]
  /\ UNCHANGED <<CONFIG, launch, unauthorized, unlinkErrors, now, userSessions, files, pendingUnlinks,
                 msgs, ticks, overwritten, released>>

\* line 343 settles, lines 182-210 seen from the caller: the answer, or the
\* fixed text "Failed to get the answer from Claude." when the service call
\* failed (getAnswerFromChatGPT never throws); line 347 sends it
Answer343(r, answered) ==
  /\ BagIn(r, tasks) /\ r.pc = "a343"
  /\ SetTask(r, [r EXCEPT !.pc = "a347", !.answerFailed = ~answered])
  /\ UNCHANGED <<CONFIG, launch, unauthorized, unlinkErrors, now, userSessions, heap,
                 files, pendingUnlinks, msgs, ticks, overwritten, released>>

\* line 347 settles: the reply with the answer; lines 356-367 end the run, or
\* a rejected reply goes to the catch of line 348
Reply347(r, ok) ==
  /\ BagIn(r, tasks) /\ r.pc = "a347"
  /\ IF ok
     THEN /\ SetTask(r, RunReturns(r))
          /\ heap' = [heap EXCEPT ![r.session] = ResetSession(@)]
     ELSE /\ SetTask(r, [r EXCEPT !.pc = "a351"])
          /\ heap' = heap
  /\ UNCHANGED <<CONFIG, launch, unauthorized, unlinkErrors, now, userSessions, files, pendingUnlinks,
                 msgs, ticks, overwritten, released>>

\* line 351 settles: the error reply of the answer step's catch
Reply351(r, ok) ==
  /\ BagIn(r, tasks) /\ r.pc = "a351"
  /\ IF ok
     THEN /\ SetTask(r, RunReturns(r))
          /\ heap' = [heap EXCEPT ![r.session] = ResetSession(@)]
     ELSE /\ SetTask(r, RunThrows(r))
          /\ heap' = heap
  /\ UNCHANGED <<CONFIG, launch, unauthorized, unlinkErrors, now, userSessions, files, pendingUnlinks,
                 msgs, ticks, overwritten, released>>

\* lines 488-489 settle: the closing reply and the deleteMessage
Reply488(r, ok) ==
  /\ BagIn(r, tasks) /\ r.pc = "a488"
  /\ IF ok THEN Finish(r) ELSE SetTask(r, TailOf(r, "a495"))
  /\ UNCHANGED <<CONFIG, launch, unauthorized, unlinkErrors, now, userSessions, heap, files, pendingUnlinks,
                 msgs, ticks, overwritten, released>>

\* ---- cleanupSessions, lines 246-265 ---------------------------------------
Expired(session) == now - session.startTime > timeoutMs

\* the sessions the sweep purges
ExpiredUsers == {u \in DOMAIN userSessions : Expired(heap[userSessions[u]])}

RECURSIVE SeqToBag(_)
SeqToBag(seq) ==
  IF seq = <<>> THEN EmptyBag
  ELSE SetToBag({Head(seq)}) (+) SeqToBag(Tail(seq))

RECURSIVE UnlinksOf(_)
\* lines 253-259: forEach calls fs.unlink on every occupied slot and does not
\* wait for any of them
UnlinksOf(users) ==
  IF users = {} THEN EmptyBag
  ELSE LET u == CHOOSE x \in users : TRUE
       IN SeqToBag(Filter(heap[userSessions[u]].screenshots))
            (+) UnlinksOf(users \ {u})

\* a plausible slip: the loop stops after the first session it purges
CleanupSessionsFirstOnly ==
  /\ ExpiredUsers # {}
  /\ LET u == CHOOSE x \in ExpiredUsers : TRUE
     IN /\ pendingUnlinks' = pendingUnlinks (+) UnlinksOf({u})
        /\ userSessions' = [v \in DOMAIN userSessions \ {u} |-> userSessions[v]]
  /\ UNCHANGED <<CONFIG, launch, unauthorized, unlinkErrors, now, heap, files, tasks,
                 msgs, ticks, overwritten, released>>

\* the timer callback of line 371, run to its end
CleanupSessions ==
  /\ ExpiredUsers # {}
  /\ pendingUnlinks' = pendingUnlinks (+) UnlinksOf(ExpiredUsers)
  /\ userSessions' = [u \in DOMAIN userSessions \ ExpiredUsers |-> userSessions[u]]
  /\ UNCHANGED <<CONFIG, launch, unauthorized, unlinkErrors, now, heap, files, tasks, msgs, ticks, overwritten, released>>

\* lines 254-258: one of the sweep's unlinks settles; a failure is logged
SweepUnlink(path, ok) ==
  /\ BagIn(path, pendingUnlinks)
  /\ ok \in UnlinkOutcomes(path)
  /\ pendingUnlinks' = pendingUnlinks (-) SetToBag({path})
  /\ IF ok
     THEN /\ files' = files \ {path}
          /\ released' = released (+) SetToBag({path})
          /\ unlinkErrors' = unlinkErrors
     ELSE /\ UNCHANGED <<files, released>>
          /\ unlinkErrors' = unlinkErrors + 1
  /\ UNCHANGED <<CONFIG, launch, unauthorized, now, userSessions, heap, tasks, msgs,
                 ticks, overwritten>>

\* ---- the system -----------------------------------------------------------
Digits == 0..MaxDigit
Messages ==
  {<<DigitChars[d + 1]>> : d \in Digits}
    \cup {<<"s", "s">>, <<"1", "S", "s">>, <<"h", "i">>}
TickSteps == {1, timeoutMs + 1}

Next ==
  \/ \E ok \in BOOLEAN : LaunchSettles(ok)
  \/ BackoffElapses
  \/ \E c \in Chats, u \in Users, m \in Messages : Receive(c, u, m)
  \/ \E r \in BagToSet(tasks), ok \in BOOLEAN : Reply417(r, ok)
  \/ \E r \in BagToSet(tasks), ok \in BOOLEAN : SingleScreenshot(r, ok)
  \/ \E r \in BagToSet(tasks), ok \in BOOLEAN, unlinked \in BOOLEAN :
       Unlink442(r, ok, unlinked)
  \/ \E r \in BagToSet(tasks) : Reply443(r)
  \/ \E r \in BagToSet(tasks) : Reply447(r)
  \/ \E r \in BagToSet(tasks), ok \in BOOLEAN : Reply460(r, ok)
  \/ \E r \in BagToSet(tasks), ok \in BOOLEAN : TakeScreenshot(r, ok)
  \/ \E r \in BagToSet(tasks) : StoreSlot(r)
  \/ \E r \in BagToSet(tasks), ok \in BOOLEAN : Reply470(r, ok)
  \/ \E r \in BagToSet(tasks) : Reply495(r)
  \/ \E r \in BagToSet(tasks), ok \in BOOLEAN : Reply478(r, ok)
  \/ \E r \in BagToSet(tasks), ok \in BOOLEAN : Reply482(r, ok)
  \/ \E r \in BagToSet(tasks), ok \in BOOLEAN : Reply283(r, ok)
  \/ \E r \in BagToSet(tasks), ok \in BOOLEAN : Reply295(r, ok)
  \/ \E r \in BagToSet(tasks), text \in files \cup {Empty} : Extracted(r, text)
  \/ \E r \in BagToSet(tasks), ok \in BOOLEAN : Reply320(r, ok)
  \/ \E r \in BagToSet(tasks), ok \in BOOLEAN : Reply323(r, ok)
  \/ \E r \in BagToSet(tasks), ok \in BOOLEAN : Unlink327(r, ok)
  \/ \E r \in BagToSet(tasks), ok \in BOOLEAN : Reply330(r, ok)
  \/ \E r \in BagToSet(tasks), ok \in BOOLEAN : Reply335(r, ok)
  \/ \E r \in BagToSet(tasks), answered \in BOOLEAN : Answer343(r, answered)
  \/ \E r \in BagToSet(tasks), ok \in BOOLEAN : Reply347(r, ok)
  \/ \E r \in BagToSet(tasks), ok \in BOOLEAN : Reply351(r, ok)
  \/ \E r \in BagToSet(tasks), ok \in BOOLEAN : Reply488(r, ok)
  \/ CleanupSessions
  \/ \E path \in BagToSet(pendingUnlinks), ok \in BOOLEAN : SweepUnlink(path, ok)
  \/ \E d \in TickSteps : Tick(d)

Spec == Init /\ [][Next]_vars

\* the start-up on its own: until launchBot returns no update is handled, so
\* only launchBot and the clock move.  Every awaited promise of launchBot
\* settles (bot.launch() resolves or rejects, the timer of line 512 fires).
LaunchStep == (\E ok \in BOOLEAN : LaunchSettles(ok)) \/ BackoffElapses

LaunchNext ==
  \/ \E ok \in BOOLEAN : LaunchSettles(ok)
  \/ BackoffElapses
  \/ \E d \in TickSteps : Tick(d)

LaunchSpec == Init /\ [][LaunchNext]_vars /\ WF_vars(LaunchStep)

\* ---- steps of a handler, for the properties below -------------------------
\* handler r takes this step and goes on as r2
Becomes(r, r2) ==
  /\ BagIn(r, tasks)
  /\ CopiesIn(r, tasks') < CopiesIn(r, tasks)
  /\ CopiesIn(r2, tasks') > CopiesIn(r2, tasks)

\* the run of handler r ends in this step: it returns, or it throws
RunEnds(r, r2) ==
  /\ Becomes(r, r2)
  /\ r.run \in {"none", "active"}
  /\ r2.run \in {"noop", "returned", "threw"}

\* the artifacts an array holds
Held(arr) == {arr[i] : i \in Occupied(arr)}

\* no handler is in flight and no unlink is pending
Quiet == tasks = EmptyBag /\ pendingUnlinks = EmptyBag

\* lines 356-359: the figures of the summary
Summary(r) ==
  [total |-> r.totalScreenshots, success |-> r.processedCount,
   failed |-> r.totalScreenshots - r.processedCount]

\* ---- C1 --------------------------------------------------------------------
\* C1: once the capture commands have completed, every artifact that a slot
\* write replaced has been released: its file is deleted, exactly once.
\* (That the slot holds the artifact of the last command is line 464 itself.)
C1_OverwrittenReleased ==
  Quiet => \A p \in overwritten : p \notin files /\ CopiesIn(p, released) = 1

\* ---- C2 --------------------------------------------------------------------
\* C2: when a run returns or throws (the empty-session return included), the
\* session's slots and extractedTexts are empty and startTime is the time of
\* the run's end.
C2_RunLeavesSessionReset ==
  [][\A r \in BagToSet(tasks), r2 \in BagToSet(tasks') :
       RunEnds(r, r2) =>
         /\ heap'[r.session].screenshots = EmptyArray
         /\ heap'[r.session].extractedTexts = EmptyTexts
         /\ heap'[r.session].startTime = now']_vars

\* ---- C3 --------------------------------------------------------------------
\* C3: a session leaves the store only when its age exceeds the timeout, and
\* at that moment the file of every occupied slot is already deleted.
C3_ReleasedBeforePurge ==
  [][\A u \in DOMAIN userSessions :
       u \notin DOMAIN userSessions' =>
         /\ Expired(heap[userSessions[u]])
         /\ Held(heap[userSessions[u]].screenshots) \cap files' = {}]_vars

\* ---- C4 --------------------------------------------------------------------
\* C4: while a run on a session is in progress, the sweep neither removes
\* that session from the store nor deletes one of the run's artifacts.
C4_SweepSparesRunningSession ==
  [][\A r \in BagToSet(tasks) :
       r.pc \in RunPcs =>
         /\ \A u \in DOMAIN userSessions :
              userSessions[u] = r.session => u \in DOMAIN userSessions'
         /\ pendingUnlinks' # pendingUnlinks =>
              /\ Held(r.startSlots) \cap (files \ files') = {}
              /\ \A p \in Held(r.startSlots) :
                   CopiesIn(p, pendingUnlinks') <= CopiesIn(p, pendingUnlinks)]_vars

\* ---- C5 --------------------------------------------------------------------
\* C5: no two runs are in progress on the same session at the same time.
C5_OneRunPerSession ==
  \A r1, r2 \in BagToSet(tasks) :
    (r1.pc \in RunPcs /\ r2.pc \in RunPcs /\ r1.session = r2.session)
      => (r1 = r2 /\ CopiesIn(r1, tasks) = 1)

\* ---- C6 --------------------------------------------------------------------
\* the pcs at which the loop of lines 289-332 has a current item
ItemPcs == {"a295", "a306", "a320", "a323", "a327", "a330"}

C7_SummaryCountsExtractionFailures ==
  \A r \in BagToSet(tasks) :
    r.pc \in {"a335", "a343", "a347", "a351"} =>
      /\ r.i = Len(r.validScreenshots)
      /\ Summary(r).failed = r.extractFailed
      /\ Summary(r).success + Summary(r).failed = Summary(r).total
      /\ Len(r.allExtractedText) = Summary(r).total - r.extractFailed

\* ---- C8 --------------------------------------------------------------------
\* C8: when a run ends, getAnswerFromChatGPT has been called exactly once if
\* the answer flag is on and the combined text is not empty, and not at all
\* otherwise; it is only ever called after the loop is over.
C8_OneAnswerCallIffWanted ==
  [][\A r \in BagToSet(tasks), r2 \in BagToSet(tasks') :
       /\ (RunEnds(r, r2) /\ r2.run # "noop") =>
            r.answerCalls = (IF AnswerWanted(r) THEN 1 ELSE 0)
       /\ (Becomes(r, r2) /\ r2.answerCalls > r.answerCalls) =>
            /\ r.answerCalls = 0
            /\ r.pc = "a335"
            /\ r.i = Len(r.validScreenshots)]_vars

\* ---- C9 --------------------------------------------------------------------
\* C9: when a run returns (its reset has cleared the slots), the file of
\* every artifact that occupied a slot at the start of the run is deleted.
C9_RunDeletesItsArtifacts ==
  [][\A r \in BagToSet(tasks), r2 \in BagToSet(tasks') :
       (RunEnds(r, r2) /\ r2.run = "returned") =>
          Held(r.startSlots) \cap files' = {}]_vars

\* ---- C10 -------------------------------------------------------------------
\* C10: no artifact is held by two slots at once, of one session or of two.
C10_NoSharedArtifact ==
  \A s1, s2 \in 1..Len(heap) : \A i, j \in Slots :
    (heap[s1].screenshots[i] # Empty /\ heap[s1].screenshots[i] = heap[s2].screenshots[j])
      => (s1 = s2 /\ i = j)

\* ---- C11 -------------------------------------------------------------------
\* C11: a message of a chat outside the allow-list starts no handler work (no
\* reply and no capture: both are steps of a handler in flight), creates no
\* session, changes no session and no file, whatever its text.
C11_UnauthorizedChangesNothing ==
  [][unauthorized' # unauthorized =>
       UNCHANGED <<userSessions, heap, tasks, files, pendingUnlinks>>]_vars

\* a message was dropped while a session with an occupied slot was in the store
C11_Witness ==
  /\ unauthorized > 0
  /\ \E u \in DOMAIN userSessions : Occupied(heap[userSessions[u]].screenshots) # {}

\* ---- C12 -------------------------------------------------------------------
\* the session of a run has just been reset
WasReset(r) ==
  /\ heap'[r.session].screenshots = EmptyArray
  /\ heap'[r.session].extractedTexts = EmptyTexts
  /\ heap'[r.session].startTime = now'

\* C12: with the extraction flag off no item of a run waits for the extraction
\* service, the text kept for an item is the fixed sentinel, and the run ends
\* by returning, with every item counted as processed and the session reset.
C12_DisabledOcrRunCompletes ==
  [][CONFIG.gemini_ocr = 0 =>
       \A r \in BagToSet(tasks), r2 \in BagToSet(tasks') :
         /\ r2.pc # "a306"
         /\ r2.pc = "a320" => r2.extractedText = Sentinel
         /\ (RunEnds(r, r2) /\ r2.run # "noop") =>
              /\ r2.run = "returned"
              /\ r.processedCount = r.totalScreenshots
              /\ WasReset(r)]_vars

\* ---- C13 -------------------------------------------------------------------
\* C13: a run whose answer service call failed still ends by returning its
\* summary, and the session is reset.
C13_AnswerFailureRunCompletes ==
  [][\A r \in BagToSet(tasks), r2 \in BagToSet(tasks') :
       (RunEnds(r, r2) /\ r.answerFailed) =>
          r2.run = "returned" /\ WasReset(r)]_vars

\* ---- C14 -------------------------------------------------------------------
\* C14: when the loop has left an item, exactly one outcome notice was
\* delivered for it: the success notice (with which the item is counted, line
\* 321) or a failure notice, not both and not neither.
C14_OneNoticePerItem ==
  \A r \in BagToSet(tasks) :
    (r.pc \in {"a295", "a335"} /\ r.i > 0) =>
       r.successNotices + r.failureNotices = 1

\* ---- C15 -------------------------------------------------------------------
\* C15: when takeScreenshot throws in a capture command, the handler goes to
\* the failure reply of line 495 for the requesting user, and neither that
\* step nor the reply changes the store or any slot, extractedTexts entry or
\* startTime of any session: the slot keeps what it held.
C15_CaptureFailureKeepsSlots ==
  [][\A r \in BagToSet(tasks) :
       /\ \A r2 \in BagToSet(tasks') :
            (Becomes(r, r2) /\ r.pc = "a95" /\ r2.pc # "a461") =>
               /\ r2.pc = "a495" /\ r2.userId = r.userId
               /\ UNCHANGED <<userSessions, heap>>
       /\ (r.error = "capture" /\ CopiesIn(r, tasks') < CopiesIn(r, tasks)) =>
            UNCHANGED <<userSessions, heap>>]_vars

\* a capture has failed for a user whose slots hold an artifact, while another
\* user's session holds one too
C15_Witness ==
  \E r \in BagToSet(tasks) :
    /\ r.error = "capture"
    /\ Occupied(Session(r).screenshots) # {}
    /\ \E s \in 1..Len(heap) :
         s # r.session /\ Occupied(heap[s].screenshots) # {}

\* ---- C16 -------------------------------------------------------------------
\* the number of slots of the sessions of these users that hold artifact p
SlotsHolding(users, p) ==
  Cardinality({us \in users \X Slots : heap[userSessions[us[1]]].screenshots[us[2]] = p})

\* C16: a sweep pass removes exactly the sessions older than the timeout,
\* leaves the others in the store with their slots as they are, and starts
\* the deletion of every artifact the purged sessions hold; a deletion that
\* fails is logged and leaves every other pending deletion in place.
C16_SweepPurgesExactlyExpired ==
  [][/\ DOMAIN userSessions' # DOMAIN userSessions /\ DOMAIN userSessions' \subseteq DOMAIN userSessions =>
          /\ DOMAIN userSessions' = DOMAIN userSessions \ ExpiredUsers
          /\ \A u \in DOMAIN userSessions' : userSessions'[u] = userSessions[u]
          /\ heap' = heap
          /\ \A p \in files \cup BagToSet(pendingUnlinks') :
               CopiesIn(p, pendingUnlinks') =
                 CopiesIn(p, pendingUnlinks) + SlotsHolding(ExpiredUsers, p)
     /\ unlinkErrors' # unlinkErrors =>
          /\ userSessions' = userSessions
          /\ \E p \in BagToSet(pendingUnlinks) :
               pendingUnlinks = pendingUnlinks' (+) SetToBag({p})]_vars

\* a sweep has purged a session with two occupied slots and kept a younger
\* one that holds an artifact; one of its deletions has failed and another is
\* still to settle
C16_Witness ==
  /\ unlinkErrors = 1
  /\ pendingUnlinks # EmptyBag
  /\ \E s \in 1..Len(heap) :
       /\ \A u \in DOMAIN userSessions : userSessions[u] # s
       /\ Cardinality(Occupied(heap[s].screenshots)) = 2
  /\ \E u \in DOMAIN userSessions :
       /\ Occupied(heap[userSessions[u]].screenshots) # {}
       /\ ~Expired(heap[userSessions[u]])

\* ---- C17 -------------------------------------------------------------------
\* the pcs of the single-shot branch
SinglePcs == {"s417", "s95", "s421", "s443", "s447"}

\* C17: a user gets a session only in the step that starts a capture handler
\* (digit 1-9) for that user; the arrival of a message leaves every session
\* already in the store in place and unchanged; and no step of a single-shot
\* handler changes the store or a session.
C17_SessionOnlyByCapture ==
  [][/\ \A u \in DOMAIN userSessions' \ DOMAIN userSessions :
          \E r2 \in BagToSet(tasks') :
            /\ CopiesIn(r2, tasks') > CopiesIn(r2, tasks)
            /\ r2.pc = "a460" /\ r2.userId = u
     /\ msgs' # msgs =>
          \A u \in DOMAIN userSessions :
            /\ u \in DOMAIN userSessions' /\ userSessions'[u] = userSessions[u]
            /\ heap'[userSessions[u]] = heap[userSessions[u]]
     /\ \A r \in BagToSet(tasks) :
          (r.pc \in SinglePcs /\ CopiesIn(r, tasks') < CopiesIn(r, tasks)) =>
             UNCHANGED <<userSessions, heap>>]_vars

\* ---- C18 -------------------------------------------------------------------
\* the start-up loop is over
LaunchOver == launch.pc \in {"returned", "exited"}

\* at every moment of the start-up: the attempt in flight is number i + 1 of
\* at most `retries`, i delays have been waited before it, a delay is only
\* waited when an attempt is left, and the process exits, with code 1, only
\* after `retries` failed attempts; once the loop is over nothing of it runs
LaunchInv ==
  /\ launch.attempts <= retries
  /\ launch.pc \in {"a504", "a512"} =>
       /\ launch.attempts = launch.i + 1
       /\ launch.waited = launch.i * delay
       /\ launch.exitCode = 0
  /\ launch.pc = "a512" => launch.i < retries - 1
  /\ launch.pc = "exited" =>
       /\ launch.attempts = retries
       /\ launch.waited = (retries - 1) * delay
       /\ launch.exitCode = 1
  /\ launch.pc = "returned" => launch.exitCode = 0
  /\ LaunchOver => ~ENABLED LaunchStep

\* C18: the start-up loop makes at most `retries` attempts with the delay
\* waited between two of them, makes none after one has succeeded, exits
\* with code 1 when the last one has failed, and always comes to an end.
C18_LaunchTerminates == []LaunchInv /\ <>LaunchOver

\* every attempt has failed and the process has exited
C18_Witness == launch.pc = "exited" /\ launch.attempts = retries

\* ---- C19 -------------------------------------------------------------------
\* C19: when a run returns, every artifact that a capture stored in a slot of
\* the session while the run was in progress is still held by a slot, or its
\* file is deleted.
C19_RunKeepsLateCaptures ==
  [][\A r \in BagToSet(tasks), r2 \in BagToSet(tasks') :
       (RunEnds(r, r2) /\ r2.run = "returned") =>
          \A p \in Held(heap[r.session].screenshots) \ Held(r.startSlots) :
            p \in Held(heap'[r.session].screenshots) \/ p \notin files']_vars

\* ---- C20 -------------------------------------------------------------------
\* C20: a capture command stores its artifact in the session that the store
\* maps to the user at that moment.
C20_SlotWriteReachesStore ==
  [][\A r \in BagToSet(tasks), r2 \in BagToSet(tasks') :
       (Becomes(r, r2) /\ r.pc = "a461") =>
          /\ r.userId \in DOMAIN userSessions'
          /\ heap'[userSessions'[r.userId]].screenshots[r.digit] = r.screenshotPath]_vars

====
